---- MODULE Spec2Model ----
(***************************************************************************)
(* Model of torchreid/data/sampler.py: the index samplers                  *)
(* RandomIdentitySampler, RandomDomainSampler, RandomDatasetSampler,       *)
(* IterDistributedSampler and InferenceSampler.                            *)
(*                                                                         *)
(* Python lists are sequences; list indices stay 0-based as VALUES (an     *)
(* index i of data_source is the item data_source[i + 1] of the sequence). *)
(* Every call of random.* and np.random.* is a nondeterministic choice     *)
(* over all the outcomes the call can return.                              *)
(***************************************************************************)
EXTENDS Integers, Sequences, FiniteSets, TLC

VARIABLES
    data_source,        \* list of items (img_path, pid, camid, dsetid)
    batch_size,
    pc,                 \* position of the sampler object / of its running pass
    length,             \* self.length
    final_idxs,         \* final_idxs of the running (or last returned) pass
    \* RandomIdentitySampler
    num_instances,
    num_pids_per_batch,
    index_dic,
    pids,
    batch_idxs_dict,
    built,              \* number of chunks __iter__ built per pid in this pass
    avai_pids,
    selected_pids,      \* the part of selected_pids the for loop still has to visit
    \* RandomDomainSampler / RandomDatasetSampler
    sampler,            \* which class build_train_sampler instantiates
    n_domain,
    n_img_per_domain,
    domain_dict,        \* self.domain_dict / self.dataset_dict
    domains,            \* self.domains / self.datasets
    pool,               \* the local deep copy domain_dict / dataset_dict of a pass
    selected_domains,   \* the part of selected_domains the for loop still has to visit
    stop_sampling,
    constructed,        \* __init__ has returned (FALSE while its own pass runs)
    \* IterDistributedSampler / InferenceSampler (one sampler object per rank)
    dataset_len,        \* len(dataset) / data_num
    total_epochs,
    num_replicas,
    shuffle,
    randperm,           \* ep -> torch.randperm(len(dataset)) under the generator seeded ep
    indices,            \* rank -> self.indices
    num_samples,        \* rank -> self.num_samples / len(self)
    status,             \* rank -> "new" | "ready" | "AssertionError"
    common_size         \* rank -> self.common_size

vars ==
    << data_source, batch_size, pc, length, final_idxs, num_instances,
       num_pids_per_batch, index_dic, pids, batch_idxs_dict, built, avai_pids,
       selected_pids, sampler, n_domain, n_img_per_domain, domain_dict, domains,
       pool, selected_domains, stop_sampling, constructed, dataset_len,
       total_epochs,
       num_replicas, shuffle, randperm, indices, num_samples, status >>

commonVars == << data_source, batch_size, pc, length, final_idxs >>

identityVars ==
    << num_instances, num_pids_per_batch, index_dic, pids, batch_idxs_dict,
       built, avai_pids, selected_pids >>

domainVars ==
    << sampler, n_domain, n_img_per_domain, domain_dict, domains, pool,
       selected_domains, stop_sampling, constructed >>

rankVars ==
    << dataset_len, total_epochs, num_replicas, shuffle, randperm, indices,
       num_samples, status, common_size >>

----------------------------------------------------------------------------
(* Bounds of the model *)

MaxData == 3        \* longest data_source
NumLabels == 2      \* distinct pid / camid / dsetid values
MaxBatch == 3       \* largest batch_size of the grouped samplers
MaxInstances == 2   \* largest num_instances
MaxDataset == 3     \* largest len(dataset) of IterDistributedSampler
MaxEpochs == 2      \* largest total_epochs
MaxReplicas == 2    \* largest num_replicas of IterDistributedSampler
MaxRankBatch == 2   \* largest batch_size of IterDistributedSampler
MaxDataNum == 6     \* largest data_num of InferenceSampler
MaxWorkers == 4     \* largest num_replicas of InferenceSampler

Labels == 1..NumLabels

----------------------------------------------------------------------------
(* Sequence helpers (Python list operations) *)

Range(s) == {s[i] : i \in DOMAIN s}

Injective(s) == \A i, j \in DOMAIN s : i # j => s[i] # s[j]

\* every list of k elements of S
Lists(S, k) == [1..k -> S]

\* list.pop(i) / del s[i], by position
RemoveAt(s, i) == SubSeq(s, 1, i - 1) \o SubSeq(s, i + 1, Len(s))

\* random.sample(population, k): k elements at pairwise distinct positions,
\* in any order; raises ValueError when k > len(population)
RECURSIVE Samples(_, _)
Samples(population, k) ==
    IF k = 0 THEN {<< >>}
    ELSE UNION {{<< population[i] >> \o rest :
                    rest \in Samples(RemoveAt(population, i), k - 1)} :
                 i \in DOMAIN population}

\* random.shuffle(x): every permutation of the positions
Shuffles(x) == Samples(x, Len(x))

\* list.remove(v): drop the first occurrence of v
Remove(s, v) ==
    LET first == CHOOSE i \in DOMAIN s : s[i] = v /\ \A j \in 1..(i - 1) : s[j] # v
    IN  SubSeq(s, 1, first - 1) \o SubSeq(s, first + 1, Len(s))

RECURSIVE RemoveAll(_, _)
RemoveAll(s, vs) ==
    IF vs = << >> THEN s ELSE RemoveAll(Remove(s, Head(vs)), Tail(vs))

\* positions of the tuple fields items[1], items[2], items[3] (0-based in Python)
PidField == 2
CamidField == 3
DsetidField == 4

Item(pid, camid, dsetid) == << "img", pid, camid, dsetid >>

\* the forward scan `for index, items in enumerate(data_source)` filling a
\* defaultdict(list); keys keeps the dict's insertion order
RECURSIVE GroupIndex(_, _, _, _)
GroupIndex(data, field, i, acc) ==
    IF i > Len(data) THEN acc
    ELSE LET lab == data[i][field]
         IN  GroupIndex(data, field, i + 1,
                IF lab \in DOMAIN acc.dic
                THEN [acc EXCEPT !.dic[lab] = Append(@, i - 1)]
                ELSE [dic  |-> acc.dic @@ (lab :> << i - 1 >>),
                      keys |-> Append(acc.keys, lab)])

EmptyIndex == [dic |-> << >>, keys |-> << >>]

RECURSIVE SumOver(_, _)
SumOver(f, S) ==
    IF S = {} THEN 0
    ELSE LET x == CHOOSE y \in S : TRUE IN f[x] + SumOver(f, S \ {x})

Min(a, b) == IF a < b THEN a ELSE b

----------------------------------------------------------------------------
(* RandomIdentitySampler *)

\* the estimate without the `if num < self.num_instances` raise of lines 48-49
EstimatedNumNoRaise(idxs, ni) == Len(idxs) - (Len(idxs) % ni)

\* lines 44-50: the estimate of the number of examples in an epoch
EstimatedNum(idxs, ni) ==
    LET num == IF Len(idxs) < ni THEN ni ELSE Len(idxs)
    IN  num - (num % ni)

\* chunking that flushes the partial tail as a chunk of its own
ChunksKeepTail(idxs, ni) ==
    [c \in 1..((Len(idxs) + ni - 1) \div ni) |->
        SubSeq(idxs, (c - 1) * ni + 1, Min(c * ni, Len(idxs)))]

\* lines 62-67: cut idxs into consecutive chunks of ni, dropping a partial tail
Chunks(idxs, ni) ==
    [c \in 1..(Len(idxs) \div ni) |-> SubSeq(idxs, (c - 1) * ni + 1, c * ni)]

\* lines 56-61: copy, pad by np.random.choice(replace=True), random.shuffle
ShuffledIdxs(idxs, ni) ==
    IF Len(idxs) < ni
    THEN UNION {Shuffles(padded) : padded \in Lists(Range(idxs), ni)}
    ELSE Shuffles(idxs)

IdleIdentity ==
    /\ num_instances = 0
    /\ num_pids_per_batch = 0
    /\ index_dic = << >>
    /\ pids = << >>
    /\ batch_idxs_dict = << >>
    /\ built = << >>
    /\ avai_pids = << >>
    /\ selected_pids = << >>

IdleDomain ==
    /\ sampler = "none"
    /\ n_domain = 0
    /\ n_img_per_domain = 0
    /\ domain_dict = << >>
    /\ domains = << >>
    /\ pool = << >>
    /\ selected_domains = << >>
    /\ stop_sampling = FALSE
    /\ constructed = FALSE

IdleRanks ==
    /\ dataset_len = 0
    /\ total_epochs = 0
    /\ num_replicas = 0
    /\ shuffle = FALSE
    /\ randperm = << >>
    /\ indices = << >>
    /\ num_samples = << >>
    /\ status = << >>
    /\ common_size = << >>

\* data sources whose items vary in one label field only
DataSources(field) ==
    UNION {{[i \in 1..n |->
                Item(IF field = PidField THEN l[i] ELSE 1,
                     IF field = CamidField THEN l[i] ELSE 1,
                     IF field = DsetidField THEN l[i] ELSE 1)] :
              l \in Lists(Labels, n)} : n \in 1..MaxData}

InitIdentity ==
    /\ data_source \in DataSources(PidField)
    /\ batch_size \in 1..MaxBatch
    /\ num_instances \in 1..MaxInstances
    /\ pc = "new"
    /\ length = 0
    /\ final_idxs = << >>
    /\ num_pids_per_batch = 0
    /\ index_dic = << >>
    /\ pids = << >>
    /\ batch_idxs_dict = << >>
    /\ built = << >>
    /\ avai_pids = << >>
    /\ selected_pids = << >>
    /\ IdleDomain
    /\ IdleRanks

\* RandomIdentitySampler.__init__, the batch_size check failing
IdentityInitValueError ==
    /\ pc = "new"
    /\ batch_size < num_instances
    /\ pc' = "ValueError"
    /\ UNCHANGED << data_source, batch_size, length, final_idxs, identityVars,
                    domainVars, rankVars >>

\* RandomIdentitySampler.__init__, the identity-count assertion failing
IdentityInitAssertionError ==
    /\ pc = "new"
    /\ batch_size >= num_instances
    /\ LET g == GroupIndex(data_source, PidField, 1, EmptyIndex)
       IN  /\ Len(g.keys) < batch_size \div num_instances
           /\ num_pids_per_batch' = batch_size \div num_instances
           /\ index_dic' = g.dic
           /\ pids' = g.keys
    /\ pc' = "AssertionError"
    /\ UNCHANGED << data_source, batch_size, length, final_idxs, num_instances,
                    batch_idxs_dict, built, avai_pids, selected_pids,
                    domainVars, rankVars >>

\* RandomIdentitySampler.__init__ returning
IdentityInit ==
    /\ pc = "new"
    /\ batch_size >= num_instances
    /\ LET g == GroupIndex(data_source, PidField, 1, EmptyIndex)
       IN  /\ Len(g.keys) >= batch_size \div num_instances
           /\ num_pids_per_batch' = batch_size \div num_instances
           /\ index_dic' = g.dic
           /\ pids' = g.keys
           /\ length' = SumOver([p \in Range(g.keys) |->
                                    EstimatedNum(g.dic[p], num_instances)],
                                Range(g.keys))
    /\ pc' = "ready"
    /\ UNCHANGED << data_source, batch_size, final_idxs, num_instances,
                    batch_idxs_dict, built, avai_pids, selected_pids,
                    domainVars, rankVars >>

\* lines 55-67: every outcome of the loop over the pids in ps, as pid -> chunks
RECURSIVE BuiltChunks(_)
BuiltChunks(ps) ==
    IF ps = << >> THEN {<< >>}
    ELSE {(Head(ps) :> Chunks(idxs, num_instances)) @@ rest :
             idxs \in ShuffledIdxs(index_dic[Head(ps)], num_instances),
             rest \in BuiltChunks(Tail(ps))}

\* __iter__ lines 53-70: build the chunk queues, copy pids, empty final_idxs
IdentityIterBuild ==
    /\ pc = "ready"
    /\ \E dict \in BuiltChunks(pids) :
          /\ batch_idxs_dict' = dict
          /\ built' = [p \in Range(pids) |-> Len(dict[p])]
    /\ avai_pids' = pids
    /\ final_idxs' = << >>
    /\ selected_pids' = << >>
    /\ pc' = "while"
    /\ UNCHANGED << data_source, batch_size, length, num_instances,
                    num_pids_per_batch, index_dic, pids, domainVars, rankVars >>

\* line 72-73: the while test passing and random.sample(avai_pids, ...)
IdentityIterSelect ==
    /\ pc = "while"
    /\ Len(avai_pids) >= num_pids_per_batch
    /\ selected_pids' \in Samples(avai_pids, num_pids_per_batch)
    /\ pc' = "for"
    /\ UNCHANGED << data_source, batch_size, length, final_idxs, num_instances,
                    num_pids_per_batch, index_dic, pids, batch_idxs_dict, built,
                    avai_pids, domainVars, rankVars >>

\* lines 75-78 without the avai_pids.remove(pid) of an emptied queue
AfterPopKeepAvailable(pid) ==
    [dict |-> [batch_idxs_dict EXCEPT ![pid] = Tail(@)], avai |-> avai_pids]

\* the queues and the available list after lines 75-78 ran for pid
AfterPop(pid) ==
    LET rest == Tail(batch_idxs_dict[pid])
    IN  [dict |-> [batch_idxs_dict EXCEPT ![pid] = rest],
         avai |-> IF Len(rest) = 0 THEN Remove(avai_pids, pid) ELSE avai_pids]

\* lines 74-78: one turn of `for pid in selected_pids`
IdentityIterPop ==
    /\ pc = "for"
    /\ selected_pids # << >>
    /\ LET pid == Head(selected_pids)
       IN  IF batch_idxs_dict[pid] = << >>
           THEN /\ pc' = "IndexError"          \* pop from an empty list
                /\ UNCHANGED << final_idxs, batch_idxs_dict, avai_pids, selected_pids >>
           ELSE /\ final_idxs' = final_idxs \o Head(batch_idxs_dict[pid])
                /\ batch_idxs_dict' = AfterPop(pid).dict
                /\ avai_pids' = AfterPop(pid).avai
                /\ selected_pids' = Tail(selected_pids)
                /\ pc' = IF Tail(selected_pids) = << >> THEN "while" ELSE "for"
    /\ UNCHANGED << data_source, batch_size, length, num_instances,
                    num_pids_per_batch, index_dic, pids, built, domainVars, rankVars >>

\* line 72 failing and line 80: return iter(final_idxs)
IdentityIterReturn ==
    /\ pc = "while"
    /\ Len(avai_pids) < num_pids_per_batch
    /\ pc' = "returned"
    /\ UNCHANGED << data_source, batch_size, length, final_idxs, identityVars,
                    domainVars, rankVars >>

\* the consumer drops the returned iterator: the locals of the pass are gone,
\* the sampler object is as it was after __init__ and can be iterated again
IdentityIterDrop ==
    /\ pc = "returned"
    /\ pc' = "ready"
    /\ final_idxs' = << >>
    /\ batch_idxs_dict' = << >>
    /\ built' = << >>
    /\ avai_pids' = << >>
    /\ selected_pids' = << >>
    /\ UNCHANGED << data_source, batch_size, length, num_instances,
                    num_pids_per_batch, index_dic, pids, domainVars, rankVars >>

NextIdentity ==
    \/ IdentityInitValueError
    \/ IdentityInitAssertionError
    \/ IdentityInit
    \/ IdentityIterBuild
    \/ IdentityIterSelect
    \/ IdentityIterPop
    \/ IdentityIterReturn
    \/ IdentityIterDrop

SpecIdentity == InitIdentity /\ [][NextIdentity]_vars

\* the pass is sequential code: it keeps running until it returns or raises
FairSpecIdentity == SpecIdentity /\ WF_vars(NextIdentity)

----------------------------------------------------------------------------
(* RandomDomainSampler and RandomDatasetSampler: the same code over the     *)
(* camid field (items[2]) and over the dsetid field (items[3])              *)

GroupedSamplers == {"RandomDomainSampler", "RandomDatasetSampler"}

InitDomain ==
    /\ sampler \in GroupedSamplers
    /\ data_source \in DataSources(IF sampler = "RandomDomainSampler"
                                   THEN CamidField ELSE DsetidField)
    /\ batch_size \in 1..MaxBatch
    /\ n_domain \in 0..NumLabels        \* 0: None or not positive
    /\ pc = "new"
    /\ length = 0
    /\ final_idxs = << >>
    /\ n_img_per_domain = 0
    /\ domain_dict = << >>
    /\ domains = << >>
    /\ pool = << >>
    /\ selected_domains = << >>
    /\ stop_sampling = FALSE
    /\ constructed = FALSE
    /\ IdleIdentity
    /\ IdleRanks

\* lines 112-113 / 171-172: the default of n_domain
DefaultedDomains(n, keys) == IF n <= 0 THEN Len(keys) ELSE n

\* the pool without the removal loop of lines 134-135
RemainingUntouched(idxs, selected_idxs) == idxs

\* lines 134-135 / 193-194: `for idx in selected_idxs: ....remove(idx)`
Remaining(idxs, selected_idxs) == RemoveAll(idxs, selected_idxs)

\* __init__ lines 102-114, the divisibility assertion failing
GroupedInitAssertionError(field) ==
    /\ pc = "new"
    /\ LET g == GroupIndex(data_source, field, 1, EmptyIndex)
           n == DefaultedDomains(n_domain, g.keys)
       IN  /\ batch_size % n # 0
           /\ domain_dict' = g.dic
           /\ domains' = g.keys
    /\ pc' = "AssertionError"
    /\ UNCHANGED << data_source, batch_size, length, final_idxs, sampler, n_domain,
                    n_img_per_domain, pool, selected_domains, stop_sampling,
                    constructed, identityVars, rankVars >>

\* __init__ lines 102-118 and, entering the __iter__ call of line 119,
\* lines 122-124
GroupedInit(field) ==
    /\ pc = "new"
    /\ LET g == GroupIndex(data_source, field, 1, EmptyIndex)
           n == DefaultedDomains(n_domain, g.keys)
       IN  /\ batch_size % n = 0
           /\ domain_dict' = g.dic
           /\ domains' = g.keys
           /\ n_domain' = n
           /\ n_img_per_domain' = batch_size \div n
           /\ pool' = g.dic
    /\ final_idxs' = << >>
    /\ stop_sampling' = FALSE
    /\ pc' = "while"
    /\ UNCHANGED << data_source, batch_size, length, sampler, selected_domains,
                    constructed, identityVars, rankVars >>

\* __iter__ called on the constructed sampler, lines 122-124
GroupedIterStart ==
    /\ pc = "ready"
    /\ pool' = domain_dict
    /\ final_idxs' = << >>
    /\ stop_sampling' = FALSE
    /\ pc' = "while"
    /\ UNCHANGED << data_source, batch_size, length, sampler, n_domain,
                    n_img_per_domain, domain_dict, domains, selected_domains,
                    constructed, identityVars, rankVars >>

\* lines 126-127: the while test passing and random.sample(self.domains, ...)
GroupedIterSelect ==
    /\ pc = "while"
    /\ ~stop_sampling
    /\ IF n_domain > Len(domains)
       THEN /\ pc' = "ValueError"       \* sample larger than population
            /\ UNCHANGED selected_domains
       ELSE /\ selected_domains' \in Samples(domains, n_domain)
            /\ pc' = "for"
    /\ UNCHANGED << data_source, batch_size, length, final_idxs, sampler, n_domain,
                    n_img_per_domain, domain_dict, domains, pool, stop_sampling,
                    constructed, identityVars, rankVars >>

\* lines 129-139: one turn of `for domain in selected_domains`
GroupedIterDraw ==
    /\ pc = "for"
    /\ selected_domains # << >>
    /\ LET domain == Head(selected_domains)
           idxs == pool[domain]
       IN  IF n_img_per_domain > Len(idxs)
           THEN /\ pc' = "ValueError"   \* sample larger than population
                /\ UNCHANGED << final_idxs, pool, stop_sampling, selected_domains >>
           ELSE \E selected_idxs \in Samples(idxs, n_img_per_domain) :
                  LET remaining == Remaining(idxs, selected_idxs)
                  IN  /\ final_idxs' = final_idxs \o selected_idxs
                      /\ pool' = [pool EXCEPT ![domain] = remaining]
                      /\ stop_sampling' =
                            (stop_sampling \/ Len(remaining) < n_img_per_domain)
                      /\ selected_domains' = Tail(selected_domains)
                      /\ pc' = IF Tail(selected_domains) = << >> THEN "while" ELSE "for"
    /\ UNCHANGED << data_source, batch_size, length, sampler, n_domain,
                    n_img_per_domain, domain_dict, domains, constructed,
                    identityVars, rankVars >>

\* line 126 failing, line 141, and for the pass __init__ runs line 119:
\* self.length = len(list(self.__iter__()))
GroupedIterReturn ==
    /\ pc = "while"
    /\ stop_sampling
    /\ pc' = "returned"
    /\ length' = IF constructed THEN length ELSE Len(final_idxs)
    /\ constructed' = TRUE
    /\ UNCHANGED << data_source, batch_size, final_idxs, sampler, n_domain,
                    n_img_per_domain, domain_dict, domains, pool, selected_domains,
                    stop_sampling, identityVars, rankVars >>

\* the returned list is consumed and dropped; the sampler can be iterated again
GroupedIterDrop ==
    /\ pc = "returned"
    /\ pc' = "ready"
    /\ final_idxs' = << >>
    /\ pool' = << >>
    /\ stop_sampling' = FALSE
    /\ UNCHANGED << data_source, batch_size, length, sampler, n_domain,
                    n_img_per_domain, domain_dict, domains, selected_domains,
                    constructed, identityVars, rankVars >>

IsDomain == sampler = "RandomDomainSampler"
IsDataset == sampler = "RandomDatasetSampler"

DomainInitAssertionError == IsDomain /\ GroupedInitAssertionError(CamidField)
DomainInit == IsDomain /\ GroupedInit(CamidField)
DomainIterStart == IsDomain /\ GroupedIterStart
DomainIterSelect == IsDomain /\ GroupedIterSelect
DomainIterDraw == IsDomain /\ GroupedIterDraw
DomainIterReturn == IsDomain /\ GroupedIterReturn
DomainIterDrop == IsDomain /\ GroupedIterDrop

DatasetInitAssertionError == IsDataset /\ GroupedInitAssertionError(DsetidField)
DatasetInit == IsDataset /\ GroupedInit(DsetidField)
DatasetIterStart == IsDataset /\ GroupedIterStart
DatasetIterSelect == IsDataset /\ GroupedIterSelect
DatasetIterDraw == IsDataset /\ GroupedIterDraw
DatasetIterReturn == IsDataset /\ GroupedIterReturn
DatasetIterDrop == IsDataset /\ GroupedIterDrop

NextDomain ==
    \/ DomainInitAssertionError
    \/ DomainInit
    \/ DomainIterStart
    \/ DomainIterSelect
    \/ DomainIterDraw
    \/ DomainIterReturn
    \/ DomainIterDrop
    \/ DatasetInitAssertionError
    \/ DatasetInit
    \/ DatasetIterStart
    \/ DatasetIterSelect
    \/ DatasetIterDraw
    \/ DatasetIterReturn
    \/ DatasetIterDrop

SpecDomain == InitDomain /\ [][NextDomain]_vars

----------------------------------------------------------------------------
(* IterDistributedSampler: every rank's process builds its own sampler from *)
(* the same arguments; torch.randperm under a generator seeded with ep is   *)
(* the same permutation in every process                                    *)

\* list(range(n))
RangeList(n) == [i \in 1..n |-> i - 1]

\* s[:stop] for 0 <= stop
Prefix(s, stop) == SubSeq(s, 1, Min(stop, Len(s)))

\* s[start:stop:step] for 0 <= start, 0 <= stop, step >= 1
Slice(s, start, stop, step) ==
    LET hi == Min(stop, Len(s))
        n  == IF hi > start THEN (hi - start + step - 1) \div step ELSE 0
    IN  [j \in 1..n |-> s[start + (j - 1) * step + 1]]

\* every outcome of torch.randperm(n).tolist()
RandPerms(n) == Shuffles(RangeList(n))

Ranks == 0..(num_replicas - 1)

InitDistributed ==
    /\ dataset_len \in 0..MaxDataset
    /\ total_epochs \in 1..MaxEpochs
    /\ batch_size \in 1..MaxRankBatch
    /\ num_replicas \in 1..MaxReplicas
    /\ shuffle \in BOOLEAN
    /\ randperm \in [0..(total_epochs - 1) ->
                        IF shuffle THEN RandPerms(dataset_len)
                        ELSE {RangeList(dataset_len)}]   \* never called
    /\ indices = [r \in Ranks |-> << >>]
    /\ num_samples = [r \in Ranks |-> 0]
    /\ status = [r \in Ranks |-> "new"]
    /\ common_size = << >>
    /\ data_source = << >>
    /\ pc = "ranks"
    /\ length = 0
    /\ final_idxs = << >>
    /\ IdleIdentity
    /\ IdleDomain

\* total_size without the floor to whole effective batches
TotalSizeUnfloored(n, effect_bs) == n

\* line 224: self.total_size
TotalSize(n, effect_bs) == (n \div effect_bs) * effect_bs

\* the shard that starts at 0 whatever the rank
ShardOfRankZero(epoch_indices, rank, total_size, replicas) ==
    Slice(epoch_indices, 0, total_size, replicas)

\* line 241: indices[self.rank:self.total_size:self.num_replicas]
Shard(epoch_indices, rank, total_size, replicas) ==
    Slice(epoch_indices, rank, total_size, replicas)

\* lines 233-238: the indices of epoch ep before the subsampling
EpochIndices(ep, total_size) ==
    IF shuffle
    THEN Prefix(Prefix(randperm[ep], total_size), total_size)
    ELSE Prefix(RangeList(dataset_len), total_size)

\* lines 228-241: self.indices after the epochs ep, ep + 1, ..., total_epochs - 1
\* were appended to acc
RECURSIVE Plan(_, _, _, _)
Plan(ep, rank, total_size, acc) ==
    IF ep >= total_epochs THEN acc
    ELSE Plan(ep + 1, rank, total_size,
              acc \o Shard(EpochIndices(ep, total_size), rank, total_size, num_replicas))

\* IterDistributedSampler.__init__ in the process of `rank`, lines 215-247
DistributedInit(rank) ==
    /\ pc = "ranks"
    /\ status[rank] = "new"
    /\ LET effect_bs  == num_replicas * batch_size
           total_size == TotalSize(dataset_len, effect_bs)
           plan       == Plan(0, rank, total_size, << >>)
           samples    == (total_size \div num_replicas) * total_epochs
       IN  /\ indices' = [indices EXCEPT ![rank] = plan]
           /\ num_samples' = [num_samples EXCEPT ![rank] = samples]
           /\ status' = [status EXCEPT ![rank] =
                            IF Len(plan) = samples THEN "ready" ELSE "AssertionError"]
    /\ UNCHANGED << commonVars, identityVars, domainVars, dataset_len,
                    total_epochs, num_replicas, shuffle, randperm, common_size >>

NextDistributed == \E rank \in Ranks : DistributedInit(rank)

SpecDistributed == InitDistributed /\ [][NextDistributed]_vars

\* IterDistributedSampler.__iter__ and __len__ of the sampler of `rank`
DistributedIter(rank) == indices[rank]
DistributedLen(rank) == num_samples[rank]

----------------------------------------------------------------------------
(* InferenceSampler: one sampler per rank over the same data_num *)

InitInference ==
    /\ dataset_len \in 0..MaxDataNum
    /\ num_replicas \in 1..MaxWorkers
    /\ indices = [r \in Ranks |-> << >>]
    /\ common_size = [r \in Ranks |-> 0]
    /\ status = [r \in Ranks |-> "new"]
    /\ total_epochs = 0
    /\ shuffle = FALSE
    /\ randperm = << >>
    /\ num_samples = << >>
    /\ data_source = << >>
    /\ batch_size = 0
    /\ pc = "workers"
    /\ length = 0
    /\ final_idxs = << >>
    /\ IdleIdentity
    /\ IdleDomain

\* the shard size by floor division
CommonSizeFloor(data_num, replicas) == data_num \div replicas

\* line 275: self.common_size, the ceiling of data_num / num_replicas
CommonSize(data_num, replicas) == (data_num + replicas - 1) \div replicas

\* InferenceSampler.__init__ in the process of `rank`, lines 264-279; the
\* range object self.indices is kept as its two bounds
InferenceInit(rank) ==
    /\ pc = "workers"
    /\ status[rank] = "new"
    /\ IF dataset_len > 0
       THEN LET size == CommonSize(dataset_len, num_replicas)
            IN  /\ common_size' = [common_size EXCEPT ![rank] = size]
                /\ indices' = [indices EXCEPT ![rank] =
                                  [begin |-> size * rank,
                                   end   |-> Min(size * (rank + 1), dataset_len)]]
                /\ status' = [status EXCEPT ![rank] = "ready"]
       ELSE /\ status' = [status EXCEPT ![rank] = "AssertionError"]   \* dataset is empty!
            /\ UNCHANGED << common_size, indices >>
    /\ UNCHANGED << commonVars, identityVars, domainVars, dataset_len,
                    total_epochs, num_replicas, shuffle, randperm, num_samples >>

NextInference == \E rank \in Ranks : InferenceInit(rank)

SpecInference == InitInference /\ [][NextInference]_vars

\* iter(range(begin, end)): begin, begin + 1, ..., end - 1, nothing when end <= begin
InferenceIter(rank) ==
    LET r == indices[rank]
    IN  [j \in 1..(IF r.end > r.begin THEN r.end - r.begin ELSE 0) |-> r.begin + j - 1]

\* len(range(begin, end))
InferenceLen(rank) ==
    LET r == indices[rank]
    IN  IF r.end - r.begin > 0 THEN r.end - r.begin ELSE 0

----------------------------------------------------------------------------
(* Properties of IterDistributedSampler *)

AllReady == \A r \in Ranks : status[r] = "ready"

PerEpoch == TotalSize(dataset_len, num_replicas * batch_size) \div num_replicas

\* the part of the plan of `rank` that belongs to epoch ep
EpochShard(rank, ep) ==
    SubSeq(DistributedIter(rank), ep * PerEpoch + 1, (ep + 1) * PerEpoch)

\* the permutation of epoch ep (0..n-1 in order when shuffle is off)
EpochPermutation(ep) == IF shuffle THEN randperm[ep] ELSE RangeList(dataset_len)

C9_WitnessSmallDataset ==
    /\ AllReady
    /\ dataset_len < num_replicas * batch_size
    /\ \A r \in Ranks : DistributedLen(r) = 0

----------------------------------------------------------------------------
(* Properties of InferenceSampler *)

Yielded(rank) == Range(InferenceIter(rank))

\* C7: the ranges of ranks 0..num_replicas-1 are pairwise disjoint, their
\* union is exactly 0..data_num-1, a rank that starts past data_num gets an
\* empty range, and __len__ is the number of indices the rank iterates.
C7_RangesPartitionData ==
    (dataset_len > 0 /\ AllReady) =>
        /\ \A r1, r2 \in Ranks : r1 # r2 => Yielded(r1) \cap Yielded(r2) = {}
        /\ UNION {Yielded(r) : r \in Ranks} = 0..(dataset_len - 1)
        /\ \A r \in Ranks :
              /\ indices[r].begin = common_size[r] * r
              /\ common_size[r] * num_replicas >= dataset_len
              /\ (common_size[r] - 1) * num_replicas < dataset_len
              /\ indices[r].begin > dataset_len => InferenceIter(r) = << >>
              /\ InferenceLen(r) = Len(InferenceIter(r))
              /\ InferenceLen(r) = Cardinality(Yielded(r))

C7_Witness ==
    /\ dataset_len > 0
    /\ AllReady
    /\ \E r \in Ranks : indices[r].begin > dataset_len
    /\ \E r \in Ranks : InferenceLen(r) > 0 /\ InferenceLen(r) < common_size[r]

----------------------------------------------------------------------------
(* Properties of RandomDomainSampler / RandomDatasetSampler *)

\* C3: __len__ of a RandomDomainSampler / RandomDatasetSampler, measured from
\* the pass __init__ runs, equals the number of indices of every later pass.
C3_LengthOfLaterPass ==
    pc = "returned" => Len(final_idxs) = length

\* C4: a completed pass of RandomDomainSampler / RandomDatasetSampler emits a
\* multiple of n_img_per_domain * n_domain (= batch_size) indices, each drawn
\* from (and removed from) its label's remaining pool, so none appears twice.
C4_WholeRoundsNoRepeat ==
    pc \in {"while", "for", "returned"} =>
        /\ Injective(final_idxs)
        /\ \A d \in Range(domains) :
              Range(pool[d]) = Range(domain_dict[d]) \ Range(final_idxs)
        /\ pc \in {"while", "returned"} =>
              /\ n_img_per_domain * n_domain = batch_size
              /\ Len(final_idxs) % (n_img_per_domain * n_domain) = 0

C4_Witness ==
    /\ pc = "returned"
    /\ n_domain >= 2
    /\ final_idxs # << >>
    /\ \E d \in Range(domains) : pool[d] # << >>

\* C5: once __init__ of RandomDomainSampler / RandomDatasetSampler has
\* returned, no later pass fails: no draw from a pool holding fewer than
\* n_img_per_domain indices, no request for more labels than exist.
C5_NoFailureAfterInit ==
    constructed => pc # "ValueError"

----------------------------------------------------------------------------
(* Properties of RandomIdentitySampler *)

PidOf(idx) == data_source[idx + 1][PidField]

\* the r-th aligned run of num_instances emitted indices
Run(r) == SubSeq(final_idxs, (r - 1) * num_instances + 1, r * num_instances)

NumRuns == Len(final_idxs) \div num_instances

RunsOf(p) == {r \in 1..NumRuns : PidOf(Run(r)[1]) = p}

ChunkBudget(p) ==
    IF Len(index_dic[p]) \div num_instances < 1
    THEN 1
    ELSE Len(index_dic[p]) \div num_instances

\* C1: the sequence one __iter__ pass of RandomIdentitySampler returns splits
\* into aligned runs of exactly num_instances indices, all indices of a run
\* belong to one identity, and no identity emits more runs than the chunks
\* built for it in the pass, max(1, count \div num_instances).
C1_RunsPerIdentity ==
    pc = "returned" =>
        /\ Len(final_idxs) % num_instances = 0
        /\ \A r \in 1..NumRuns : \A i \in 1..num_instances :
              /\ Run(r)[i] \in 0..(Len(data_source) - 1)
              /\ PidOf(Run(r)[i]) = PidOf(Run(r)[1])
        /\ \A p \in Range(pids) :
              /\ built[p] = ChunkBudget(p)
              /\ Cardinality(RunsOf(p)) <= built[p]

C1_Witness ==
    /\ pc = "returned"
    /\ num_instances >= 2
    /\ NumRuns >= 2
    /\ \E r \in 1..NumRuns : PidOf(Run(r)[1]) # PidOf(Run(1)[1])
    /\ \E p \in Range(pids) : Len(index_dic[p]) < num_instances /\ RunsOf(p) # {}

\* the b-th full batch of batch_size emitted indices
Batch(b) == SubSeq(final_idxs, (b - 1) * batch_size + 1, b * batch_size)

InstancesIn(b, p) == Cardinality({i \in 1..batch_size : PidOf(Batch(b)[i]) = p})

\* C2: cut into consecutive batches of batch_size, every batch of a returned
\* pass holds exactly num_pids_per_batch distinct identities, each with
\* exactly num_instances indices.
C2_BatchComposition ==
    pc = "returned" =>
        \A b \in 1..(Len(final_idxs) \div batch_size) :
            LET present == {PidOf(Batch(b)[i]) : i \in 1..batch_size}
            IN  /\ Cardinality(present) = num_pids_per_batch
                /\ \A p \in present : InstancesIn(b, p) = num_instances

\* C8: __len__ of RandomIdentitySampler bounds the number of indices a pass
\* emits from above, with equality exactly when no identity is left with an
\* unconsumed chunk when the pass returns.
C8_LengthUpperBound ==
    pc = "returned" =>
        /\ Len(final_idxs) <= length
        /\ (Len(final_idxs) = length) <=>
               (\A p \in Range(pids) : batch_idxs_dict[p] = << >>)

C8_Witness ==
    /\ pc = "returned"
    /\ final_idxs # << >>
    /\ Len(final_idxs) < length
    /\ \E p \in Range(pids) : batch_idxs_dict[p] # << >>

WithChunks == {p \in Range(pids) : batch_idxs_dict[p] # << >>}

C10_LoopInvariant ==
    /\ pc # "IndexError"
    /\ pc \in {"while", "for", "returned"} =>
          /\ Range(avai_pids) = WithChunks
          /\ Injective(avai_pids)
          /\ Range(selected_pids) \subseteq WithChunks
    /\ pc \in {"while", "returned"} =>
          Len(final_idxs) % (num_pids_per_batch * num_instances) = 0
    /\ pc = "returned" => Len(avai_pids) < num_pids_per_batch

C10_LoopStep ==
    /\ (pc = "while" /\ Len(avai_pids) >= num_pids_per_batch) => pc' = "for"
    /\ (pc = "while" /\ pc' = "returned") => Len(avai_pids) < num_pids_per_batch

\* C10: every __iter__ pass of RandomIdentitySampler terminates; in its
\* selection loop the available list is exactly the set of identities with an
\* unconsumed chunk, so no chunk is popped from an empty queue; a round runs
\* whenever at least num_pids_per_batch identities are available, the loop
\* stops exactly when fewer remain, and the emitted length is a multiple of
\* num_pids_per_batch * num_instances.
C10_PassTerminates ==
    /\ []C10_LoopInvariant
    /\ [][C10_LoopStep]_vars
    /\ [](pc \in {"while", "for"} => <>(pc = "returned"))

C10_Witness ==
    /\ pc = "returned"
    /\ num_pids_per_batch >= 2
    /\ Len(final_idxs) >= num_pids_per_batch * num_instances
    /\ avai_pids # << >>

====
